---------------------------- MODULE Spec2Model ----------------------------
(***************************************************************************)
(* Tool-of-the-Tavern: Top-8 graphic generator.                            *)
(*                                                                         *)
(* The module models                                                       *)
(*   - the colour-space functions and the colorize pass of the HSL filter  *)
(*     module (rgbToHsl, hslToRgb, applyColorize),                         *)
(*   - applyHslFilter and removeBackgroundWithAPI as promise state         *)
(*     machines,                                                           *)
(*   - extractSlug and getTop8,                                            *)
(*   - the renderer: the three click handlers and generateGraphic.         *)
(*                                                                         *)
(* One action is one turn of the JavaScript event loop: a handler runs     *)
(* with every microtask it queues until it suspends on an external event   *)
(* (a network response, a body read, an image load, a file read).          *)
(*                                                                         *)
(* JavaScript numbers are modelled as exact rationals <<n, d>>, d > 0, in  *)
(* lowest terms; Math.round is floor(x + 1/2).                             *)
(***************************************************************************)
EXTENDS Integers, Sequences, FiniteSets, TLC

VARIABLES
    \* ---- colour round trip (rgbToHsl / hslToRgb) ----
    cpc,        \* "off" | "rgb" -> "hsl" -> "back"
    rgbIn,      \* the input triple <<r, g, b>>
    hslMid,     \* rgbToHsl(rgbIn), once computed
    rgbOut,     \* hslToRgb(hslMid), once computed
    \* ---- applyColorize on an ImageData ----
    zpc,        \* "off" | "input" -> "colorized"
    imageIn,    \* the pixels before the call, <<r, g, b, a>> each
    imageData,  \* imageData.data, as a sequence of pixels
    colorize,   \* <<hue, saturation>> passed to applyColorize
    \* ---- extractSlug ----
    spc,        \* "off" | "input" -> "once" -> "twice"
    slugIn,     \* the input string, a sequence of characters
    slugOut,    \* extractSlug(slugIn)
    slugOut2,   \* extractSlug(slugOut)
    \* ---- applyHslFilter / removeBackgroundWithAPI ----
    filt,       \* one applyHslFilter call: its position, promise and effects
    removeBgKey,\* import.meta.env.VITE_REMOVEBG_KEY is set
    \* ---- getTop8 ----
    startggKey, \* import.meta.env.VITE_STARTGG_KEY is set
    calls,      \* the getTop8 calls in flight
    httpSent,   \* a request to api.start.gg has been issued
    top8Last,   \* how the last settled getTop8 call ended
    \* ---- renderer: the page ----
    inputValue, \* input.value
    btnDisabled,    \* btn.disabled (Fetch Top 8)
    genBtnDisabled, \* genBtn.disabled (Generate Graphic)
    container,  \* #top8-container: a status text or the editable rows
    graphicArea,\* #graphic-area: its child nodes, in order
    borderChk,  \* #add-border-chk is checked
    \* ---- renderer: generateGraphic ----
    renders,    \* the generateGraphic calls in flight
    dpr,        \* window.devicePixelRatio
    metrics,    \* the font metrics behind measureText
    lastRender, \* the last generateGraphic call that returned
    prevRender  \* the one that returned before it

colorVars == <<cpc, rgbIn, hslMid, rgbOut>>
colorizeVars == <<zpc, imageIn, imageData, colorize>>

slugVars == <<spc, slugIn, slugOut, slugOut2>>

filterVars == <<filt, removeBgKey>>
netVars == <<startggKey, calls, httpSent, top8Last>>
uiVars == <<inputValue, btnDisabled, genBtnDisabled, container, graphicArea, borderChk>>
renderVars == <<renders, dpr, metrics, lastRender, prevRender>>

vars == <<colorVars, colorizeVars, slugVars, filterVars, netVars, uiVars, renderVars>>

\* what the actions of one part leave alone
notColor == <<colorizeVars, slugVars, filterVars, netVars, uiVars, renderVars>>
notColorize == <<colorVars, slugVars, filterVars, netVars, uiVars, renderVars>>
notSlug == <<colorVars, colorizeVars, filterVars, netVars, uiVars, renderVars>>
notFilter == <<colorVars, colorizeVars, slugVars, netVars, uiVars, renderVars>>
notNet == <<colorVars, colorizeVars, slugVars, filterVars, uiVars, renderVars>>
notPage == <<colorVars, colorizeVars, slugVars, filterVars>>

---------------------------------------------------------------------------
(* Exact rational arithmetic standing for JavaScript's numbers.            *)

Abs(x) == IF x < 0 THEN -x ELSE x

RECURSIVE GCD(_, _)
GCD(a, b) == IF b = 0 THEN a ELSE GCD(b, a % b)

Norm(n, d) == LET g == GCD(Abs(n), d) IN <<n \div g, d \div g>>

Rat(n) == <<n, 1>>

RAdd(a, b) ==
    LET g == GCD(a[2], b[2])
    IN  Norm(a[1] * (b[2] \div g) + b[1] * (a[2] \div g), (a[2] \div g) * b[2])

RNeg(a) == <<-a[1], a[2]>>

RSub(a, b) == RAdd(a, RNeg(b))

RMul(a, b) ==
    LET g1 == GCD(Abs(a[1]), b[2])
        g2 == GCD(Abs(b[1]), a[2])
    IN  <<(a[1] \div g1) * (b[1] \div g2), (a[2] \div g2) * (b[2] \div g1)>>

\* a / b, b # 0
RDiv(a, b) ==
    IF b[1] > 0 THEN RMul(a, <<b[2], b[1]>>) ELSE RMul(a, <<-b[2], -b[1]>>)

RLt(a, b) == RSub(a, b)[1] < 0

RMax(a, b) == IF RLt(a, b) THEN b ELSE a

RMin(a, b) == IF RLt(b, a) THEN b ELSE a

\* Math.round: the nearest integer, a tie going up
MathRound(a) == (2 * a[1] + a[2]) \div (2 * a[2])

\* Math.ceil
MathCeil(a) == -((-a[1]) \div a[2])

---------------------------------------------------------------------------
(* Color Space Converter                                                   *)

\* the saturation of a chromatic colour always taken from the dark-half formula
hslSaturationDarkOnly(max, min, l) == RDiv(RSub(max, min), RAdd(max, min))

\* s = l > 0.5 ? d / (2 - max - min) : d / (max + min)
hslSaturation(max, min, l) ==
    IF RLt(<<1, 2>>, l)
    THEN RDiv(RSub(max, min), RSub(RSub(Rat(2), max), min))
    ELSE RDiv(RSub(max, min), RAdd(max, min))

rgbToHsl(r0, g0, b0) ==
    LET r == RDiv(r0, Rat(255))
        g == RDiv(g0, Rat(255))
        b == RDiv(b0, Rat(255))
        max == RMax(RMax(r, g), b)
        min == RMin(RMin(r, g), b)
        l == RDiv(RAdd(max, min), Rat(2))
        d == RSub(max, min)
        s == IF max = min THEN Rat(0) ELSE hslSaturation(max, min, l)
        h == IF max = min THEN Rat(0)
             ELSE IF max = r
                  THEN RDiv(RAdd(RDiv(RSub(g, b), d),
                                 IF RLt(g, b) THEN Rat(6) ELSE Rat(0)), Rat(6))
             ELSE IF max = g
                  THEN RDiv(RAdd(RDiv(RSub(b, r), d), Rat(2)), Rat(6))
                  ELSE RDiv(RAdd(RDiv(RSub(r, g), d), Rat(4)), Rat(6))
    IN  <<RMul(h, Rat(360)), RMul(s, Rat(100)), RMul(l, Rat(100))>>

hue2rgb(p, q, t0) ==
    LET t1 == IF RLt(t0, Rat(0)) THEN RAdd(t0, Rat(1)) ELSE t0
        t  == IF RLt(Rat(1), t1) THEN RSub(t1, Rat(1)) ELSE t1
    IN  IF RLt(t, <<1, 6>>)
           THEN RAdd(p, RMul(RMul(RSub(q, p), Rat(6)), t))
        ELSE IF RLt(t, <<1, 2>>)
           THEN q
        ELSE IF RLt(t, <<2, 3>>)
           THEN RAdd(p, RMul(RMul(RSub(q, p), RSub(<<2, 3>>, t)), Rat(6)))
        ELSE p

hslToRgb(h0, s0, l0) ==
    LET h == RDiv(h0, Rat(360))
        s == RDiv(s0, Rat(100))
        l == RDiv(l0, Rat(100))
        q == IF RLt(l, <<1, 2>>)
             THEN RMul(l, RAdd(Rat(1), s))
             ELSE RSub(RAdd(l, s), RMul(l, s))
        p == RSub(RMul(Rat(2), l), q)
        r == IF s = Rat(0) THEN l ELSE hue2rgb(p, q, RAdd(h, <<1, 3>>))
        g == IF s = Rat(0) THEN l ELSE hue2rgb(p, q, h)
        b == IF s = Rat(0) THEN l ELSE hue2rgb(p, q, RSub(h, <<1, 3>>))
    IN  <<MathRound(RMul(r, Rat(255))),
          MathRound(RMul(g, Rat(255))),
          MathRound(RMul(b, Rat(255)))>>

---------------------------------------------------------------------------
(* Colorize pass                                                           *)

\* a store into a Uint8ClampedArray
Clamp8(x) == IF x < 0 THEN 0 ELSE IF x > 255 THEN 255 ELSE x

\* the body of applyColorize's loop, which writes the pixel's own alpha back:
\* here the alpha is forced opaque instead
colorizePixelOpaque(px, hue, saturation) ==
    LET gray == Norm(299 * px[1] + 587 * px[2] + 114 * px[3], 1000)
        l == rgbToHsl(gray, gray, gray)[3]
        new == hslToRgb(Rat(hue), Rat(saturation), l)
    IN  <<Clamp8(new[1]), Clamp8(new[2]), Clamp8(new[3]), 255>>

colorizePixel(px, hue, saturation) ==
    LET gray == Norm(299 * px[1] + 587 * px[2] + 114 * px[3], 1000)
        l == rgbToHsl(gray, gray, gray)[3]
        new == hslToRgb(Rat(hue), Rat(saturation), l)
    IN  <<Clamp8(new[1]), Clamp8(new[2]), Clamp8(new[3]), px[4]>>

applyColorize(data, hue, saturation) ==
    [i \in 1 .. Len(data) |-> colorizePixel(data[i], hue, saturation)]

\* the lightness pass of applyHslFilter (run only when lightnessAdjust # 0)
lightnessPixel(px, lightnessAdjust) ==
    LET hsl == rgbToHsl(Rat(px[1]), Rat(px[2]), Rat(px[3]))
        l == RMax(Rat(0), RMin(Rat(100), RAdd(hsl[3], Rat(lightnessAdjust))))
        new == hslToRgb(hsl[1], hsl[2], l)
    IN  <<Clamp8(new[1]), Clamp8(new[2]), Clamp8(new[3]), px[4]>>

applyLightness(data, lightnessAdjust) ==
    [i \in 1 .. Len(data) |-> lightnessPixel(data[i], lightnessAdjust)]

---------------------------------------------------------------------------
(* Strings are sequences of one-character strings.                         *)

StartsAt(s, pat, i) ==
    /\ i >= 1
    /\ i + Len(pat) - 1 <= Len(s)
    /\ \A k \in 1 .. Len(pat) : s[i + k - 1] = pat[k]

\* String.prototype.indexOf(pat, from), 1-based; 0 when there is none
IndexOfFrom(s, pat, from) ==
    LET hits == {i \in from .. Len(s) : StartsAt(s, pat, i)}
    IN  IF hits = {} THEN 0 ELSE CHOOSE i \in hits : \A j \in hits : i <= j

\* String.prototype.includes
Includes(s, pat) == IndexOfFrom(s, pat, 1) # 0

\* s.split(sep)[0]
SplitPiece0(s, sep) ==
    LET i == IndexOfFrom(s, sep, 1)
    IN  IF i = 0 THEN s ELSE SubSeq(s, 1, i - 1)

\* s.split(sep)[1], for an s that includes sep
SplitPiece1(s, sep) ==
    LET i == IndexOfFrom(s, sep, 1)
        from == i + Len(sep)
        j == IndexOfFrom(s, sep, from)
    IN  IF j = 0 THEN SubSeq(s, from, Len(s)) ELSE SubSeq(s, from, j - 1)

StartGG == <<"s", "t", "a", "r", "t", ".", "g", "g", "/">>

Overview == <<"/", "o", "v", "e", "r", "v", "i", "e", "w">>

---------------------------------------------------------------------------
(* Slug Extractor                                                          *)

\* everything after the first marker is kept, up to the first "/overview"
extractSlugKeepTail(input) ==
    IF Includes(input, StartGG)
    THEN LET i == IndexOfFrom(input, StartGG, 1)
         IN  SplitPiece0(SubSeq(input, i + Len(StartGG), Len(input)), Overview)
    ELSE input

extractSlug(input) ==
    IF Includes(input, StartGG)
    THEN SplitPiece0(SplitPiece1(input, StartGG), Overview)
    ELSE input

---------------------------------------------------------------------------
(* Harness states of the parts a specification does not run.               *)

SlugOff == spc = "off" /\ slugIn = <<>> /\ slugOut = <<>> /\ slugOut2 = <<>>

FilterOff == filt = [pc |-> "off"] /\ removeBgKey = FALSE

NoTop8 == [outcome |-> "none", nodes |-> <<>>, error |-> "", respOk |-> FALSE,
           body |-> "none"]

NetOff ==
    /\ startggKey = FALSE
    /\ calls = <<>>
    /\ httpSent = FALSE
    /\ top8Last = NoTop8

PageOff ==
    /\ inputValue = <<>>
    /\ btnDisabled = FALSE
    /\ genBtnDisabled = TRUE
    /\ container = [kind |-> "empty", rows |-> <<>>]
    /\ graphicArea = <<>>
    /\ borderChk = FALSE

NoRender ==
    [returned |-> FALSE, outcome |-> "none", isArray |-> FALSE, entries |-> <<>>,
     loads |-> <<>>, addBorder |-> FALSE, canvas |-> <<>>]

RenderOff ==
    /\ renders = <<>>
    /\ dpr = <<1, 1>>
    /\ metrics = [text |-> <<1, 1>>, header |-> <<1, 1>>]
    /\ lastRender = NoRender
    /\ prevRender = NoRender

ColorOff == cpc = "off" /\ rgbIn = <<>> /\ hslMid = <<>> /\ rgbOut = <<>>

ColorizeOff ==
    zpc = "off" /\ imageIn = <<>> /\ imageData = <<>> /\ colorize = <<>>

---------------------------------------------------------------------------
(* Round-trip harness: a triple is converted to HSL and back.              *)

\* channel values the harness draws: LevelCount values spread over 0..255
LevelCount == 30

Level(i) == (i * 37) % 256

Levels == {Level(i) : i \in 0 .. LevelCount - 1} \cup {1, 127, 128, 254, 255}

ColorInit ==
    /\ cpc = "rgb"
    /\ rgbIn \in Levels \X Levels \X Levels
    /\ hslMid = <<>>
    /\ rgbOut = <<>>
    /\ ColorizeOff /\ SlugOff /\ FilterOff /\ NetOff /\ PageOff /\ RenderOff

ConvertToHsl ==
    /\ cpc = "rgb"
    /\ hslMid' = rgbToHsl(Rat(rgbIn[1]), Rat(rgbIn[2]), Rat(rgbIn[3]))
    /\ cpc' = "hsl"
    /\ UNCHANGED <<rgbIn, rgbOut, notColor>>

ConvertToRgb ==
    /\ cpc = "hsl"
    /\ rgbOut' = hslToRgb(hslMid[1], hslMid[2], hslMid[3])
    /\ cpc' = "back"
    /\ UNCHANGED <<rgbIn, hslMid, notColor>>

ColorNext == ConvertToHsl \/ ConvertToRgb

SpecColor == ColorInit /\ [][ColorNext]_vars

(* C6: for every RGB triple with channels in 0..255, converting to HSL and *)
(* back reproduces every channel within 1.                                 *)
RoundTripWithinOne ==
    cpc = "back" =>
        \A k \in 1 .. 3 : Abs(rgbOut[k] - rgbIn[k]) <= 1

\* a saturated, light, non-gray triple has made the round trip
RoundTripDone ==
    /\ cpc = "back"
    /\ rgbIn = <<127, 254, 255>>
    /\ hslMid[2] # Rat(0)

---------------------------------------------------------------------------
(* Colorize harness: applyColorize on a fully gray image.                  *)

\* pixels of an image beyond the first
MaxPixels == 2

GrayPixel(v, a) == <<v, v, v, a>>

FirstPixels == {GrayPixel(v, a) : v \in 0 .. 255, a \in {255, 128}}

RestPixels == {GrayPixel(v, a) : v \in {0, 77, 255}, a \in {0, 255}}

RECURSIVE SeqsUpTo(_, _)
SeqsUpTo(S, n) ==
    IF n = 0 THEN {<<>>}
    ELSE LET shorter == SeqsUpTo(S, n - 1)
         IN  shorter \cup {Append(q, x) : q \in shorter, x \in S}

GrayImages ==
    {<<p>> \o rest : p \in FirstPixels, rest \in SeqsUpTo(RestPixels, MaxPixels - 1)}

ColorizeInit ==
    /\ zpc = "input"
    /\ imageIn \in GrayImages
    /\ imageData = imageIn
    /\ colorize \in {<<120, 50>>, <<300, 100>>, <<0, 0>>}
    /\ ColorOff /\ SlugOff /\ FilterOff /\ NetOff /\ PageOff /\ RenderOff

ApplyColorize ==
    /\ zpc = "input"
    /\ imageData' = applyColorize(imageData, colorize[1], colorize[2])
    /\ zpc' = "colorized"
    /\ UNCHANGED <<imageIn, colorize, notColorize>>

ColorizeNext == ApplyColorize

SpecColorize == ColorizeInit /\ [][ColorizeNext]_vars

HueOf(px) == rgbToHsl(Rat(px[1]), Rat(px[2]), Rat(px[3]))[1]

IsGray(px) == px[1] = px[2] /\ px[2] = px[3]

(* C9 as stated: colorizing a fully gray image (any gray level 0..255)     *)
(* with hue 120 and saturation 50 gives all opaque pixels the same hue,    *)
(* and every alpha equals its input alpha.                                 *)
ColorizeUniformHue ==
    (zpc = "colorized" /\ colorize = <<120, 50>>) =>
        /\ \A i, j \in 1 .. Len(imageData) :
              (imageData[i][4] = 255 /\ imageData[j][4] = 255)
                  => HueOf(imageData[i]) = HueOf(imageData[j])
        /\ \A i \in 1 .. Len(imageData) : imageData[i][4] = imageIn[i][4]

(* C9 amended: colorizing a fully gray image with hue 120 and saturation   *)
(* 50 leaves every alpha equal to its input alpha, gives every pixel of    *)
(* gray level 1..254 the hue 120, and turns a pixel of level 0 or 255 into *)
(* black or white, whose hue is 0.                                         *)
ColorizeHueExceptBlackWhite ==
    (zpc = "colorized" /\ colorize = <<120, 50>>) =>
        \A i \in 1 .. Len(imageData) :
            /\ imageData[i][4] = imageIn[i][4]
            /\ imageIn[i][1] \in 1 .. 254 => HueOf(imageData[i]) = Rat(120)
            /\ imageIn[i][1] \in {0, 255} =>
                  /\ imageData[i] = imageIn[i]
                  /\ HueOf(imageData[i]) = Rat(0)

\* a two-pixel gray image with a translucent pixel has been colorized
ColorizeDone ==
    /\ zpc = "colorized"
    /\ colorize = <<120, 50>>
    /\ Len(imageData) = 2
    /\ imageIn[1] = GrayPixel(200, 128)
    /\ imageIn[2] = GrayPixel(77, 255)
    /\ imageData[1] # imageIn[1]

---------------------------------------------------------------------------
(* Slug harness: extractSlug is applied to an input, then to its result.   *)

\* an input is up to MaxParts fragments, concatenated
MaxParts == 3

Fragments ==
    { StartGG, Overview,
      <<"s", "t", "a", "r", "t", ".">>, <<"g", "g", "/">>,
      <<"/", "o", "v", "e", "r">>, <<"v", "i", "e", "w">>,
      <<"t", "/", "e", "v", "e", "n", "t", "/", "m">>,
      <<"w", "w", "w", ".">> }

RECURSIVE Concat(_)
Concat(parts) ==
    IF parts = <<>> THEN <<>> ELSE Head(parts) \o Concat(Tail(parts))

SlugInputs == {Concat(parts) : parts \in SeqsUpTo(Fragments, MaxParts)}

SlugInit ==
    /\ spc = "input"
    /\ slugIn \in SlugInputs
    /\ slugOut = <<>>
    /\ slugOut2 = <<>>
    /\ ColorOff /\ ColorizeOff /\ FilterOff /\ NetOff /\ PageOff /\ RenderOff

ExtractOnce ==
    /\ spc = "input"
    /\ slugOut' = extractSlug(slugIn)
    /\ spc' = "once"
    /\ UNCHANGED <<slugIn, slugOut2, notSlug>>

ExtractTwice ==
    /\ spc = "once"
    /\ slugOut2' = extractSlug(slugOut)
    /\ spc' = "twice"
    /\ UNCHANGED <<slugIn, slugOut, notSlug>>

SlugNext == ExtractOnce \/ ExtractTwice

SpecSlug == SlugInit /\ [][SlugNext]_vars

EndsWith(s, suf) ==
    Len(s) >= Len(suf) /\ StartsAt(s, suf, Len(s) - Len(suf) + 1)

\* the text after the first marker, less a trailing "/overview"
AfterMarkerLessSuffix(s) ==
    LET i == CHOOSE k \in 1 .. Len(s) :
                 StartsAt(s, StartGG, k) /\ \A j \in 1 .. k - 1 : ~StartsAt(s, StartGG, j)
        rem == SubSeq(s, i + Len(StartGG), Len(s))
    IN  IF EndsWith(rem, Overview)
        THEN SubSeq(rem, 1, Len(rem) - Len(Overview))
        ELSE rem

HasMarker(s) == \E i \in 1 .. Len(s) : StartsAt(s, StartGG, i)

(* C10 as stated: an input holding "start.gg/" gives the substring after   *)
(* the marker and before an "/overview" suffix; any other input is         *)
(* returned unchanged; the result holds no "start.gg/" and extractSlug is  *)
(* idempotent.                                                             *)
SlugAsStated ==
    /\ spc \in {"once", "twice"} =>
          /\ HasMarker(slugIn) => slugOut = AfterMarkerLessSuffix(slugIn)
          /\ ~HasMarker(slugIn) => slugOut = slugIn
          /\ ~HasMarker(slugOut)
    /\ spc = "twice" => slugOut2 = slugOut

\* r is the text of s after its first marker, cut where the next marker or
\* the first "/overview" begins
IsFirstSegment(s, r) ==
    \E i \in 1 .. Len(s) :
        /\ StartsAt(s, StartGG, i)
        /\ \A j \in 1 .. i - 1 : ~StartsAt(s, StartGG, j)
        /\ LET rem == SubSeq(s, i + Len(StartGG), Len(s))
           IN  \E k \in 0 .. Len(rem) :
                  /\ r = SubSeq(rem, 1, k)
                  /\ \A j \in 1 .. k :
                        ~StartsAt(rem, StartGG, j) /\ ~StartsAt(rem, Overview, j)
                  /\ \/ k = Len(rem)
                     \/ StartsAt(rem, StartGG, k + 1)
                     \/ StartsAt(rem, Overview, k + 1)

(* C10 amended: an input holding "start.gg/" gives the text after the      *)
(* first marker up to where the next "start.gg/" or the first "/overview"  *)
(* begins (wherever it stands, not only as a suffix), or to the end; any   *)
(* other input is returned unchanged; the result holds no "start.gg/" and  *)
(* extractSlug is idempotent.                                              *)
SlugFirstSegment ==
    /\ spc \in {"once", "twice"} =>
          /\ HasMarker(slugIn) => IsFirstSegment(slugIn, slugOut)
          /\ ~HasMarker(slugIn) => slugOut = slugIn
          /\ ~HasMarker(slugOut)
    /\ spc = "twice" => slugOut2 = slugOut

\* a URL with the marker and the "/overview" suffix has been reduced twice
SlugReduced ==
    /\ spc = "twice"
    /\ slugIn = <<"w", "w", "w", ".">> \o StartGG \o Overview
    /\ slugOut = <<>>

\* two markers in one input
SlugTwoMarkers ==
    /\ spc = "twice"
    /\ slugIn = StartGG \o <<"t", "/", "e", "v", "e", "n", "t", "/", "m">> \o StartGG
    /\ slugOut = <<"t", "/", "e", "v", "e", "n", "t", "/", "m">>

---------------------------------------------------------------------------
(* Image Filter Engine: applyHslFilter and removeBackgroundWithAPI.        *)
(*                                                                         *)
(* filt.pc is the event the call waits for; filt.bg is the promise of      *)
(* removeBackgroundWithAPI; filt.promise is the promise applyHslFilter     *)
(* returned.  requests, fileReads and decodes count the removal requests   *)
(* sent, the readAsDataURL calls and the image decodes started; canvas is  *)
(* the processed pixel buffer; blob says resolve was called with a blob.   *)

NoKeyError == "remove.bg API key not configured"

RemoveFailedError == "Failed to remove background"

\* reject(error): a settled promise stays as it is
Reject(f, msg) ==
    IF f.promise = "pending"
    THEN [f EXCEPT !.promise = "rejected", !.error = msg]
    ELSE f

\* resolve(blob)
Resolve(f) ==
    IF f.promise = "pending"
    THEN [f EXCEPT !.promise = "resolved", !.blob = TRUE]
    ELSE [f EXCEPT !.blob = TRUE]

\* reader.readAsDataURL(fileToProcess)
StartRead(f) == [f EXCEPT !.pc = "awaitRead", !.fileReads = @ + 1]

\* removeBackgroundWithAPI up to its first await
removeBackgroundStart(f, key) ==
    IF ~key
    THEN [f EXCEPT !.bg = "rejected", !.bgError = NoKeyError]
    ELSE [f EXCEPT !.bg = "pending", !.requests = @ + 1]

\* removeBackgroundWithAPI's catch: throw new Error("Failed to remove background: ...")
removeBackgroundThrow(f) ==
    [f EXCEPT !.bg = "rejected", !.bgError = RemoveFailedError]

\* the catch without its return: the call goes on to read the original file
RemoveBgFailedNoReturn(f) == StartRead(Reject(f, f.bgError))

\* applyHslFilter's catch around the removal: reject(error); return
RemoveBgFailed(f) == [Reject(f, f.bgError) EXCEPT !.pc = "settled"]

\* what the decoder yields for the service's answer: the first pixel cleared
BgRemoved(pixels) ==
    [i \in 1 .. Len(pixels) |->
        IF i = 1 THEN <<pixels[i][1], pixels[i][2], pixels[i][3], 0>> ELSE pixels[i]]

\* img.onload: draw, colorize, adjust the lightness, put the pixels back
ProcessPixels(f) ==
    LET decoded == IF f.toProcess = "blob" THEN BgRemoved(f.file) ELSE f.file
        tinted == applyColorize(decoded, f.args.hueShift, f.args.saturationAdjust)
    IN  IF f.args.lightnessAdjust # 0
        THEN applyLightness(tinted, f.args.lightnessAdjust)
        ELSE tinted

FilterArgs ==
    { [hueShift |-> a[1], saturationAdjust |-> a[2], lightnessAdjust |-> a[3],
       removeBg |-> rb] :
        a \in {<<0, 0, 0>>, <<120, 50, 0>>, <<120, 50, 20>>, <<-60, 100, -20>>},
        rb \in BOOLEAN }

FilterFiles ==
    { << <<200, 100, 50, 255>> >>,
      << <<10, 20, 30, 255>>, <<128, 128, 128, 0>> >> }

FilterStart ==
    /\ filt \in [pc : {"idle"}, args : FilterArgs, file : FilterFiles,
                 toProcess : {"file"}, bg : {"idle"}, bgError : {""},
                 promise : {"pending"}, error : {""}, requests : {0},
                 fileReads : {0}, decodes : {0}, canvas : {<<>>}, blob : {FALSE}]
    /\ removeBgKey \in BOOLEAN

\* applyHslFilter(imageFile, hueShift, saturationAdjust, lightnessAdjust, removeBg)
FilterCall ==
    /\ filt.pc = "idle"
    /\ filt' = IF ~filt.args.removeBg
               THEN StartRead(filt)
               ELSE LET g == removeBackgroundStart(filt, removeBgKey)
                    IN  IF g.bg = "rejected"
                        THEN RemoveBgFailed(g)
                        ELSE [g EXCEPT !.pc = "awaitRemoveFetch"]
    /\ UNCHANGED <<removeBgKey, notFilter>>

\* fetch() answers: response.ok or not
RemoveFetchResponse ==
    /\ filt.pc = "awaitRemoveFetch"
    /\ \E ok \in BOOLEAN :
          filt' = [filt EXCEPT !.pc = IF ok THEN "awaitBlob" ELSE "awaitErrorJson"]
    /\ UNCHANGED <<removeBgKey, notFilter>>

\* fetch() rejects: a network error
RemoveFetchFails ==
    /\ filt.pc = "awaitRemoveFetch"
    /\ filt' = RemoveBgFailed(removeBackgroundThrow(filt))
    /\ UNCHANGED <<removeBgKey, notFilter>>

\* response.json() of a non-success answer settles, parsed or not: either way
\* an error is thrown inside the try and rethrown by the catch
RemoveErrorJson ==
    /\ filt.pc = "awaitErrorJson"
    /\ filt' = RemoveBgFailed(removeBackgroundThrow(filt))
    /\ UNCHANGED <<removeBgKey, notFilter>>

\* response.blob() settles
RemoveBlob ==
    /\ filt.pc = "awaitBlob"
    /\ \E ok \in BOOLEAN :
          filt' = IF ok
                  THEN StartRead([filt EXCEPT !.bg = "fulfilled", !.toProcess = "blob"])
                  ELSE RemoveBgFailed(removeBackgroundThrow(filt))
    /\ UNCHANGED <<removeBgKey, notFilter>>

\* reader.onload: img.src = e.target.result
ReaderLoad ==
    /\ filt.pc = "awaitRead"
    /\ filt' = [filt EXCEPT !.pc = "awaitDecode", !.decodes = @ + 1]
    /\ UNCHANGED <<removeBgKey, notFilter>>

\* reader.onerror
ReaderError ==
    /\ filt.pc = "awaitRead"
    /\ filt' = [Reject(filt, "Failed to read file") EXCEPT !.pc = "settled"]
    /\ UNCHANGED <<removeBgKey, notFilter>>

\* img.onload
ImgLoad ==
    /\ filt.pc = "awaitDecode"
    /\ filt' = [filt EXCEPT !.canvas = ProcessPixels(filt), !.pc = "awaitEncode"]
    /\ UNCHANGED <<removeBgKey, notFilter>>

\* img.onerror
ImgError ==
    /\ filt.pc = "awaitDecode"
    /\ filt' = [Reject(filt, "Failed to load image") EXCEPT !.pc = "settled"]
    /\ UNCHANGED <<removeBgKey, notFilter>>

\* canvas.toBlob's callback
ToBlobDone ==
    /\ filt.pc = "awaitEncode"
    /\ filt' = [Resolve(filt) EXCEPT !.pc = "settled"]
    /\ UNCHANGED <<removeBgKey, notFilter>>

FilterNext ==
    \/ FilterCall
    \/ RemoveFetchResponse
    \/ RemoveFetchFails
    \/ RemoveErrorJson
    \/ RemoveBlob
    \/ ReaderLoad
    \/ ReaderError
    \/ ImgLoad
    \/ ImgError
    \/ ToBlobDone

FilterInit ==
    /\ FilterStart
    /\ ColorOff /\ ColorizeOff /\ SlugOff /\ NetOff /\ PageOff /\ RenderOff

SpecFilter == FilterInit /\ [][FilterNext]_vars

(* C2: when applyHslFilter runs with removeBg = true and the removal fails *)
(* (missing key, network error, non-success status), the promise rejects   *)
(* with an error, the removal request was sent at most once, and nothing   *)
(* follows: no file read, no decode, no pixel processed, no blob resolved. *)
RemovalFailureStopsFilter ==
    (filt.args.removeBg /\ filt.bg = "rejected") =>
        /\ filt.promise = "rejected"
        /\ filt.error \in {NoKeyError, RemoveFailedError}
        /\ filt.pc = "settled"
        /\ filt.requests <= 1
        /\ filt.fileReads = 0
        /\ filt.decodes = 0
        /\ filt.canvas = <<>>
        /\ ~filt.blob

\* a removal request went out, failed, and the call has settled
RemovalFailedAfterRequest ==
    /\ filt.args.removeBg
    /\ filt.bg = "rejected"
    /\ filt.requests = 1
    /\ filt.bgError = RemoveFailedError
    /\ filt.pc = "settled"

---------------------------------------------------------------------------
(* Standings Client: getTop8.                                              *)
(*                                                                         *)
(* A call in flight is [pc, slug, ok]: it waits for fetch ("awaitFetch")   *)
(* or for res.json() ("awaitJson").  A settled call is summed up as        *)
(* [outcome, nodes, error, respOk, body]: what it returned or threw, and   *)
(* the response it had (respOk: res.ok; body: what the body held).         *)

\* a standings node: placement and entrant.name, either possibly null
Node(hasPlacement, placement, hasName, name) ==
    [hasPlacement |-> hasPlacement, placement |-> placement,
     hasName |-> hasName, name |-> name]

\* the key check dropped: the request goes out without a key
getTop8StartUnchecked(eventUrl, key) ==
    [thrown |-> FALSE,
     call |-> [pc |-> "awaitFetch", slug |-> extractSlug(eventUrl), ok |-> FALSE]]

\* getTop8 up to its first await: the slug, the key check, the fetch
getTop8Start(eventUrl, key) ==
    IF ~key
    THEN [thrown |-> TRUE,
          call |-> [pc |-> "thrown", slug |-> extractSlug(eventUrl), ok |-> FALSE]]
    ELSE [thrown |-> FALSE,
          call |-> [pc |-> "awaitFetch", slug |-> extractSlug(eventUrl), ok |-> FALSE]]

Top8KeyError == "API key not set (VITE_STARTGG_KEY)"

Top8Thrown(msg, respOk, body) ==
    [outcome |-> "thrown", nodes |-> <<>>, error |-> msg, respOk |-> respOk,
     body |-> body]

\* res.json() throws on a body that is no JSON; json.data throws on the JSON
\* null; any other body gives json.data?.event?.standings?.nodes ?? []
getTop8Return(call, body) ==
    IF body.kind = "unparsable"
    THEN Top8Thrown("SyntaxError", call.ok, body.kind)
    ELSE IF body.kind = "null"
    THEN Top8Thrown("TypeError", call.ok, body.kind)
    ELSE [outcome |-> "returned",
          nodes |-> IF body.kind = "nodes" THEN body.nodes ELSE <<>>,
          error |-> "", respOk |-> call.ok, body |-> body.kind]

\* nodes per response
MaxNodes == 2

NameA == <<"T", " ", "|", " ", "a", " ">>

Nodes ==
    { Node(TRUE, 1, TRUE, NameA), Node(TRUE, 2, FALSE, <<>>),
      Node(FALSE, 0, TRUE, NameA) }

Bodies ==
    {[kind |-> k, nodes |-> <<>>] : k \in {"unparsable", "null", "noData"}}
        \cup {[kind |-> "nodes", nodes |-> ns] : ns \in SeqsUpTo(Nodes, MaxNodes)}

RemoveAt(q, i) == SubSeq(q, 1, i - 1) \o SubSeq(q, i + 1, Len(q))

\* strings the harness and the page's input draw
UrlFull ==
    <<"w", "w", "w", ".">> \o StartGG
        \o <<"t", "/", "e", "v", "e", "n", "t", "/", "m">> \o Overview

UrlSlug == <<"t", "/", "E", "v", "e", "n", "t", "/", "m">>

---------------------------------------------------------------------------
(* Key harness: getTop8 is called directly, beside an applyHslFilter call. *)

KeysCallTop8 ==
    /\ calls = <<>>
    /\ \E url \in {UrlFull, UrlSlug} :
          LET st == getTop8Start(url, startggKey)
          IN  IF st.thrown
              THEN /\ top8Last' = Top8Thrown(Top8KeyError, FALSE, "none")
                   /\ UNCHANGED <<calls, httpSent>>
              ELSE /\ calls' = Append(calls, st.call)
                   /\ httpSent' = TRUE
                   /\ top8Last' = NoTop8
    /\ UNCHANGED <<startggKey, notNet>>

\* fetch() answers with some status
KeysTop8Response ==
    /\ \E i \in 1 .. Len(calls), ok \in BOOLEAN :
          /\ calls[i].pc = "awaitFetch"
          /\ calls' = [calls EXCEPT ![i] = [@ EXCEPT !.pc = "awaitJson", !.ok = ok]]
    /\ UNCHANGED <<startggKey, httpSent, top8Last, notNet>>

\* fetch() rejects
KeysTop8NetworkError ==
    /\ \E i \in 1 .. Len(calls) :
          /\ calls[i].pc = "awaitFetch"
          /\ calls' = RemoveAt(calls, i)
          /\ top8Last' = Top8Thrown("network", FALSE, "none")
    /\ UNCHANGED <<startggKey, httpSent, notNet>>

\* res.json() settles
KeysTop8Json ==
    /\ \E i \in 1 .. Len(calls), body \in Bodies :
          /\ calls[i].pc = "awaitJson"
          /\ calls' = RemoveAt(calls, i)
          /\ top8Last' = getTop8Return(calls[i], body)
    /\ UNCHANGED <<startggKey, httpSent, notNet>>

KeysNext ==
    \/ KeysCallTop8
    \/ KeysTop8Response
    \/ KeysTop8NetworkError
    \/ KeysTop8Json
    \/ FilterNext

KeysInit ==
    /\ startggKey \in BOOLEAN
    /\ calls = <<>>
    /\ httpSent = FALSE
    /\ top8Last = NoTop8
    /\ FilterStart
    /\ ColorOff /\ ColorizeOff /\ SlugOff /\ PageOff /\ RenderOff

SpecKeys == KeysInit /\ [][KeysNext]_vars

(* C3: with the key of a feature absent, the operation fails with an error *)
(* at once and no request of that feature is ever issued: getTop8 throws   *)
(* without a call left in flight, and a removal asked of applyHslFilter    *)
(* rejects with the key error before any request.                          *)
MissingKeyBlocksRequest ==
    /\ ~startggKey =>
          /\ ~httpSent
          /\ calls = <<>>
          /\ top8Last.outcome # "returned"
          /\ top8Last.outcome = "thrown" => top8Last.error = Top8KeyError
    /\ ~removeBgKey =>
          /\ filt.requests = 0
          /\ (filt.args.removeBg /\ filt.pc # "idle") =>
                /\ filt.pc = "settled"
                /\ filt.promise = "rejected"
                /\ filt.error = NoKeyError

\* both features were used without their keys
BothKeysMissingAndUsed ==
    /\ ~startggKey
    /\ top8Last.outcome = "thrown"
    /\ ~removeBgKey
    /\ filt.args.removeBg
    /\ filt.promise = "rejected"

---------------------------------------------------------------------------
(* Graphic Renderer: generateGraphic.                                      *)
(*                                                                         *)
(* An entry is [place, name, character, icon]; icon is "null" or "img".    *)
(* A call in flight is [by, entries, loads, rejected]: loads[i] says what  *)
(* became of the image load of entry i ("none": no load was started,       *)
(* "pending", "ok", "error").  The nodes of #graphic-area are records:     *)
(* a canvas with its pixel buffer size (width, height), its CSS size       *)
(* (styleWidth, styleHeight) and what each row shows; the download link;   *)
(* a text.                                                                 *)

UpperCase ==
    <<"A", "B", "C", "D", "E", "F", "G", "H", "I", "J", "K", "L", "M",
      "N", "O", "P", "Q", "R", "S", "T", "U", "V", "W", "X", "Y", "Z">>

LowerCase ==
    <<"a", "b", "c", "d", "e", "f", "g", "h", "i", "j", "k", "l", "m",
      "n", "o", "p", "q", "r", "s", "t", "u", "v", "w", "x", "y", "z">>

\* String.prototype.toLowerCase
ToLowerCase(str) ==
    [i \in 1 .. Len(str) |->
        IF \E k \in 1 .. Len(UpperCase) : UpperCase[k] = str[i]
        THEN LowerCase[CHOOSE k \in 1 .. Len(UpperCase) : UpperCase[k] = str[i]]
        ELSE str[i]]

\* String.prototype.toUpperCase
ToUpperCase(str) ==
    [i \in 1 .. Len(str) |->
        IF \E k \in 1 .. Len(LowerCase) : LowerCase[k] = str[i]
        THEN UpperCase[CHOOSE k \in 1 .. Len(LowerCase) : LowerCase[k] = str[i]]
        ELSE str[i]]

leftPadding == 4
rightPadding == 4
iconLeftPadding == 24
iconSize == 60
rowH == 70
headerBottomPadding == 24
headerHeight == 72
minWidth == 200
borderThickness == 1

NoEntriesText == "No entries to generate from."

TextNode(t) == [kind |-> "text", text |-> t]

LinkNode == [kind |-> "a", text |-> "Download PNG"]

IsSpace(c) == c \in {" ", "\t", "\n"}

NotDotOrSpace(c) == c # "." /\ ~IsSpace(c)

\* name.replace(/\./g, "").replace(/\s+/g, "")
cleanedIconBase(name) == SelectSeq(name, NotDotOrSpace)

\* loadCharacterIcon sets img.src: the character and its file base are not empty
IconLoadStarts(character) ==
    character # <<>> /\ cleanedIconBase(character) # <<>>

\* a character the badge's word split takes as a separator: "&" has been
\* replaced by a space
IsSeparator(c) == c = "&" \/ IsSpace(c)

\* name.replace(/&/g, " ").split(/\s+/).filter(Boolean)
RECURSIVE Words(_)
Words(str) ==
    IF str = <<>> THEN <<>>
    ELSE IF IsSeparator(Head(str)) THEN Words(Tail(str))
    ELSE LET seps == {i \in 1 .. Len(str) : IsSeparator(str[i])}
             end == IF seps = {} THEN Len(str) + 1
                    ELSE CHOOSE i \in seps : \A j \in seps : i <= j
         IN  <<SubSeq(str, 1, end - 1)>> \o Words(SubSeq(str, end, Len(str)))

\* charInitials: [thrown, text]; with no word at all parts[0] is undefined
\* and parts[0][0] throws a TypeError
charInitials(name) ==
    IF name = <<>> THEN [thrown |-> FALSE, text |-> <<"?">>]
    ELSE LET parts == Words(name)
         IN  IF Len(parts) = 1
             THEN [thrown |-> FALSE,
                   text |-> ToUpperCase(SubSeq(parts[1], 1,
                                IF Len(parts[1]) < 2 THEN Len(parts[1]) ELSE 2))]
             ELSE IF Len(parts) = 0
             THEN [thrown |-> TRUE, text |-> <<>>]
             ELSE [thrown |-> FALSE,
                   text |-> ToUpperCase(<<parts[1][1], parts[2][1]>>)]

\* e.character || e.name
BadgeName(e) == IF e.character # <<>> THEN e.character ELSE e.name

\* the icon column of each row: drawImage for a loaded image, else the badge
\* with charInitials
DrawRows(entries) ==
    [i \in 1 .. Len(entries) |->
        IF entries[i].icon = "img" THEN [thrown |-> FALSE, text |-> <<>>]
        ELSE charInitials(BadgeName(entries[i]))]

\* entries.forEach ends in an exception: generateGraphic rejects before it
\* appends the canvas
DrawThrows(entries) == \E i \in 1 .. Len(entries) : DrawRows(entries)[i].thrown

\* img.onload: resolve(img)
iconOnLoad(inv, i) ==
    [inv EXCEPT !.entries[i].icon = "img", !.loads[i] = "ok"]

\* img.onerror rejecting the load instead of resolving it with null
iconOnErrorRejects(inv, i) ==
    [inv EXCEPT !.loads[i] = "error", !.rejected = TRUE]

\* img.onerror: resolve(null)
iconOnError(inv, i) ==
    [inv EXCEPT !.entries[i].icon = "null", !.loads[i] = "error"]

\* the guard dropped: any argument is taken as its list of entries
generateGraphicBeginUnguarded(by, arg) ==
    [empty |-> FALSE,
     inv |-> [by |-> by, entries |-> arg.items,
              loads |-> [i \in 1 .. Len(arg.items) |-> "none"], rejected |-> FALSE]]

\* generateGraphic up to Promise.all: the guard, then every load is started;
\* an entry whose character gives no file settles at once with icon null
generateGraphicBegin(by, arg) ==
    IF ~arg.isArray \/ Len(arg.items) = 0
    THEN [empty |-> TRUE,
          inv |-> [by |-> by, entries |-> <<>>, loads |-> <<>>, rejected |-> FALSE]]
    ELSE [empty |-> FALSE,
          inv |-> [by |-> by,
                   entries |-> [i \in 1 .. Len(arg.items) |->
                                   IF IconLoadStarts(arg.items[i].character)
                                   THEN arg.items[i]
                                   ELSE [arg.items[i] EXCEPT !.icon = "null"]],
                   loads |-> [i \in 1 .. Len(arg.items) |->
                                 IF IconLoadStarts(arg.items[i].character)
                                 THEN "pending" ELSE "none"],
                   rejected |-> FALSE]]

AllSettled(inv) == \A i \in 1 .. Len(inv.loads) : inv.loads[i] # "pending"

\* `${e.place}. ${e.name}`
RowLabel(e) == e.place \o <<".", " ">> \o e.name

\* measureCtx.measureText(label).width with the text font
TextWidth(label, met) == RMul(Rat(Len(label)), met.text)

RECURSIVE MaxRowTextWidth(_, _)
MaxRowTextWidth(entries, met) ==
    IF entries = <<>> THEN Rat(0)
    ELSE RMax(TextWidth(RowLabel(Head(entries)), met),
              MaxRowTextWidth(Tail(entries), met))

\* the border counted on one side only
borderExtraOneSide(addBorder) == IF addBorder THEN borderThickness ELSE 0

\* borderSize * 2
borderExtra(addBorder) == (IF addBorder THEN borderThickness ELSE 0) * 2

\* the assignment to canvas.width / canvas.height keeps the whole pixels
ToPixels(x) == x[1] \div x[2]

\* layout and drawing: the canvas generateGraphic builds
MakeCanvas(entries, addBorder, ratio, met) ==
    LET neededWidthForRows ==
            RAdd(Rat(leftPadding + iconLeftPadding + iconSize + rightPadding),
                 MaxRowTextWidth(entries, met))
        innerWidth ==
            MathCeil(RMax(RMax(neededWidthForRows,
                               RAdd(Rat(leftPadding + rightPadding), met.header)),
                          Rat(minWidth)))
        neededWidth == innerWidth + borderExtra(addBorder)
        innerHeight == headerHeight + headerBottomPadding + Len(entries) * rowH
        height == innerHeight + borderExtra(addBorder)
    IN  [kind |-> "canvas",
         width |-> ToPixels(RMul(Rat(neededWidth), ratio)),
         height |-> ToPixels(RMul(Rat(height), ratio)),
         styleWidth |-> neededWidth,
         styleHeight |-> height,
         rows |-> [i \in 1 .. Len(entries) |->
                      IF entries[i].icon = "img" THEN "icon" ELSE "badge"],
         badges |-> [i \in 1 .. Len(entries) |-> DrawRows(entries)[i].text]]

\* what a finished call leaves behind for inspection
Returned(outcome, isArray, inv, addBorder, canvas) ==
    [returned |-> TRUE, outcome |-> outcome, isArray |-> isArray,
     entries |-> inv.entries, loads |-> inv.loads, addBorder |-> addBorder,
     canvas |-> canvas]

---------------------------------------------------------------------------
(* Render harness: generateGraphic is called with a list (or something     *)
(* that is no list); the loads settle; the border box may be toggled and   *)
(* the same argument rendered again.                                       *)

\* entries per list
MaxEntries == 2

Entry(place, name, character) ==
    [place |-> place, name |-> name, character |-> character, icon |-> "null"]

Fox == <<"F", "o", "x">>

EntryTypes ==
    { Entry(<<"1">>, n, c) :
        n \in {<<"A">>, <<"L", "u", "c", "k", "y", " ", "M">>},
        c \in {<<>>, Fox, <<".", " ">>} }

RenderArgs ==
    {[isArray |-> FALSE, items |-> <<>>]}
        \cup {[isArray |-> TRUE, items |-> es] : es \in SeqsUpTo(EntryTypes, MaxEntries)}

FontMetrics ==
    { [text |-> <<49, 2>>, header |-> <<381, 2>>],
      [text |-> <<25, 2>>, header |-> <<405, 2>>] }

PixelRatios == {<<1, 1>>, <<2, 1>>, <<3, 2>>}

RenderInit ==
    /\ renders = <<>>
    /\ dpr \in PixelRatios
    /\ metrics \in FontMetrics
    /\ lastRender = NoRender
    /\ prevRender = NoRender
    /\ inputValue = <<>>
    /\ btnDisabled = FALSE
    /\ genBtnDisabled = TRUE
    /\ container = [kind |-> "empty", rows |-> <<>>]
    /\ graphicArea = <<>>
    /\ borderChk \in BOOLEAN
    /\ ColorOff /\ ColorizeOff /\ SlugOff /\ FilterOff /\ NetOff

renderFrame ==
    <<dpr, metrics, inputValue, btnDisabled, genBtnDisabled, container,
      colorVars, colorizeVars, slugVars, filterVars, netVars>>

\* the call ends: with the message, or with the canvas and the link appended
HarnessFinish(outcome, isArray, inv, area) ==
    /\ prevRender' = lastRender
    /\ IF outcome = "drawn" /\ DrawThrows(inv.entries)
       THEN /\ graphicArea' = area
            /\ lastRender' = Returned("threw", isArray, inv, borderChk, <<>>)
       ELSE IF outcome = "drawn"
       THEN LET canvas == MakeCanvas(inv.entries, borderChk, dpr, metrics)
            IN  /\ graphicArea' = area \o <<canvas, LinkNode>>
                /\ lastRender' = Returned(outcome, isArray, inv, borderChk, canvas)
       ELSE /\ graphicArea' = area
            /\ lastRender' = Returned(outcome, isArray, inv, borderChk, <<>>)

HarnessRenderOf(args) ==
    /\ renders = <<>>
    /\ \E arg \in args :
          /\ lastRender.returned =>
                (arg.isArray = lastRender.isArray
                    /\ Len(arg.items) = Len(lastRender.entries)
                    /\ \A i \in 1 .. Len(arg.items) :
                          [arg.items[i] EXCEPT !.icon = "null"]
                              = [lastRender.entries[i] EXCEPT !.icon = "null"])
          /\ LET st == generateGraphicBegin("harness", arg)
             IN  IF st.empty
                 THEN /\ HarnessFinish("empty", arg.isArray, st.inv,
                                       <<TextNode(NoEntriesText)>>)
                      /\ UNCHANGED renders
                 ELSE IF AllSettled(st.inv)
                 THEN /\ HarnessFinish("drawn", arg.isArray, st.inv, <<>>)
                      /\ UNCHANGED renders
                 ELSE /\ renders' = Append(renders, st.inv)
                      /\ graphicArea' = <<>>
                      /\ UNCHANGED <<lastRender, prevRender>>
    /\ UNCHANGED <<borderChk, renderFrame>>

HarnessRender == HarnessRenderOf(RenderArgs)

\* one image load settles; the last one lets the call go on to draw
HarnessSettle(k, i, inv) ==
    /\ IF inv.rejected
       THEN /\ renders' = RemoveAt(renders, k)
            /\ HarnessFinish("rejected", TRUE, inv, graphicArea)
       ELSE IF AllSettled(inv)
       THEN /\ renders' = RemoveAt(renders, k)
            /\ HarnessFinish("drawn", TRUE, inv, graphicArea)
       ELSE /\ renders' = [renders EXCEPT ![k] = inv]
            /\ UNCHANGED <<graphicArea, lastRender, prevRender>>
    /\ UNCHANGED <<borderChk, renderFrame>>

HarnessIconLoad ==
    \E k \in 1 .. Len(renders) : \E i \in 1 .. Len(renders[k].loads) :
        /\ renders[k].loads[i] = "pending"
        /\ HarnessSettle(k, i, iconOnLoad(renders[k], i))

HarnessIconError ==
    \E k \in 1 .. Len(renders) : \E i \in 1 .. Len(renders[k].loads) :
        /\ renders[k].loads[i] = "pending"
        /\ HarnessSettle(k, i, iconOnError(renders[k], i))

\* the user ticks or clears "Add border"
HarnessToggleBorder ==
    /\ borderChk' = ~borderChk
    /\ UNCHANGED <<renders, graphicArea, lastRender, prevRender, renderFrame>>

RenderNext ==
    \/ HarnessRender
    \/ HarnessIconLoad
    \/ HarnessIconError
    \/ HarnessToggleBorder

SpecRender == RenderInit /\ [][RenderNext]_vars

Canvases(area) == {i \in 1 .. Len(area) : area[i].kind = "canvas"}

Links(area) == {i \in 1 .. Len(area) : area[i].kind = "a"}

(* C7: generateGraphic called with an empty list, or with something that   *)
(* is no list, shows the "no entries" message, starts no icon load and     *)
(* adds neither a canvas nor a download link.                              *)
EmptyListRejected ==
    (lastRender.returned /\ (~lastRender.isArray \/ lastRender.entries = <<>>)) =>
        /\ lastRender.outcome = "empty"
        /\ graphicArea = <<TextNode(NoEntriesText)>>
        /\ Canvases(graphicArea) = {} /\ Links(graphicArea) = {}
        /\ lastRender.loads = <<>>
        /\ renders = <<>>

\* an empty list was rendered where a render had already returned
EmptyListRendered ==
    /\ lastRender.returned
    /\ lastRender.isArray
    /\ lastRender.entries = <<>>
    /\ prevRender.returned

\* something that is no list was rendered
NonListRendered == lastRender.returned /\ ~lastRender.isArray

(* C5: the icon loads of all entries are started together and the canvas   *)
(* is laid out only once every one has settled; a failed load settles      *)
(* with icon null and never rejects, so each row whose load succeeded      *)
(* keeps its image, each other row gets the badge, and the canvas and the  *)
(* link are added all the same.                                            *)
IconLoadsJoined ==
    /\ \A k \in 1 .. Len(renders) :
          /\ ~AllSettled(renders[k])
          /\ ~renders[k].rejected
          /\ graphicArea = <<>>
          /\ \A i \in 1 .. Len(renders[k].entries) :
                IconLoadStarts(renders[k].entries[i].character)
                    => renders[k].loads[i] \in {"pending", "ok", "error"}
    /\ (lastRender.returned /\ lastRender.isArray /\ lastRender.entries # <<>>) =>
          /\ lastRender.outcome = "drawn"
          /\ Len(lastRender.canvas.rows) = Len(lastRender.entries)
          /\ \A i \in 1 .. Len(lastRender.entries) :
                /\ lastRender.loads[i] # "pending"
                /\ lastRender.loads[i] = "ok" =>
                      /\ lastRender.entries[i].icon = "img"
                      /\ lastRender.canvas.rows[i] = "icon"
                /\ lastRender.loads[i] \in {"error", "none"} =>
                      /\ lastRender.entries[i].icon = "null"
                      /\ lastRender.canvas.rows[i] = "badge"
          /\ renders = <<>> => graphicArea = <<lastRender.canvas, LinkNode>>

\* one load failed, the other succeeded, and the canvas is there
OneIconFailedOtherDrawn ==
    /\ lastRender.outcome = "drawn"
    /\ lastRender.loads = <<"error", "ok">>
    /\ graphicArea = <<lastRender.canvas, LinkNode>>
    /\ lastRender.canvas.rows = <<"badge", "icon">>

IconColumn == leftPadding + iconLeftPadding + iconSize + rightPadding

\* w >= the text width of every row plus the icon column and the paddings
WideEnough(w, entries) ==
    \A i \in 1 .. Len(entries) :
        ~RLt(Rat(w), RAdd(TextWidth(RowLabel(entries[i]), metrics), Rat(IconColumn)))

BorderAddedSinceLast ==
    /\ lastRender.outcome = "drawn"
    /\ prevRender.outcome = "drawn"
    /\ lastRender.addBorder
    /\ ~prevRender.addBorder
    /\ Len(lastRender.entries) = Len(prevRender.entries)
    /\ \A i \in 1 .. Len(lastRender.entries) :
          RowLabel(lastRender.entries[i]) = RowLabel(prevRender.entries[i])

(* C8 as stated: a canvas rendered without border from n entries has       *)
(* height 72 + 24 + n * 70 and a width of at least the widest row text     *)
(* plus icon column and paddings, and at least 200; the same entries with  *)
(* the border give a canvas larger by exactly twice the border thickness   *)
(* in both dimensions.                                                     *)
CanvasSizeAsStated ==
    /\ (lastRender.outcome = "drawn" /\ ~lastRender.addBorder) =>
          /\ lastRender.canvas.height = 72 + 24 + Len(lastRender.entries) * 70
          /\ lastRender.canvas.width >= 200
          /\ WideEnough(lastRender.canvas.width, lastRender.entries)
    /\ BorderAddedSinceLast =>
          /\ lastRender.canvas.width = prevRender.canvas.width + 2 * borderThickness
          /\ lastRender.canvas.height = prevRender.canvas.height + 2 * borderThickness

(* C8 amended: the stated height, width bounds and border increase hold of *)
(* the canvas's CSS size (style.width, style.height); the pixel buffer     *)
(* (canvas.width, canvas.height) is the CSS size multiplied by             *)
(* window.devicePixelRatio, whole pixels kept.                             *)
CanvasLogicalSize ==
    /\ (lastRender.outcome = "drawn" /\ ~lastRender.addBorder) =>
          /\ lastRender.canvas.styleHeight = 72 + 24 + Len(lastRender.entries) * 70
          /\ lastRender.canvas.styleWidth >= 200
          /\ WideEnough(lastRender.canvas.styleWidth, lastRender.entries)
    /\ BorderAddedSinceLast =>
          /\ lastRender.canvas.styleWidth
                = prevRender.canvas.styleWidth + 2 * borderThickness
          /\ lastRender.canvas.styleHeight
                = prevRender.canvas.styleHeight + 2 * borderThickness
    /\ lastRender.outcome = "drawn" =>
          /\ lastRender.canvas.width
                = (lastRender.canvas.styleWidth * dpr[1]) \div dpr[2]
          /\ lastRender.canvas.height
                = (lastRender.canvas.styleHeight * dpr[1]) \div dpr[2]

\* two entries rendered without the border, then with it, on a dense display
BorderedAfterPlain ==
    /\ BorderAddedSinceLast
    /\ Len(lastRender.entries) = 2
    /\ dpr = <<2, 1>>
    /\ lastRender.canvas.styleWidth > 200 + 2 * borderThickness

---------------------------------------------------------------------------
(* Badge harness: generateGraphic is called with entries whose character   *)
(* and name are any text, words or separators only.                        *)

GameAndWatch == <<"G", "a", "m", "e", " ", "&", " ", "w", "a", "t", "c", "h">>

BadgeEntryTypes ==
    { Entry(<<"1">>, n, c) :
        n \in {<<"z", "a", "i", "n">>, <<"m", "r", " ", "x">>, <<"&">>},
        c \in {<<>>, Fox, GameAndWatch, <<"&", "&">>} }

BadgeArgs ==
    {[isArray |-> TRUE, items |-> es] :
        es \in SeqsUpTo(BadgeEntryTypes, MaxEntries) \ {<<>>}}

BadgeRender == HarnessRenderOf(BadgeArgs)

BadgeNext ==
    \/ BadgeRender
    \/ HarnessIconLoad
    \/ HarnessIconError

SpecBadge == RenderInit /\ [][BadgeNext]_vars

\* the initials as described: the words are what "&" and white space part
InitialsAsStated(name) ==
    LET words == Words(name)
    IN  IF Len(words) = 1
        THEN ToUpperCase(SubSeq(words[1], 1,
                 IF Len(words[1]) < 2 THEN Len(words[1]) ELSE 2))
        ELSE IF Len(words) >= 2
        THEN ToUpperCase(<<words[1][1], words[2][1]>>)
        ELSE <<>>

(* C11: a missing icon is never fatal: generateGraphic called with a       *)
(* non-empty list, whatever the characters and names (separators only,     *)
(* or an empty character), ends by adding the canvas and the link, and     *)
(* every row without a loaded image carries the badge with the initials:   *)
(* the upper-cased first two letters of a single word or first letters of  *)
(* the first two words, "&" parting words.                                 *)
BadgeNeverFatal ==
    (lastRender.returned /\ lastRender.isArray /\ lastRender.entries # <<>>) =>
        /\ lastRender.outcome = "drawn"
        /\ renders = <<>> => graphicArea = <<lastRender.canvas, LinkNode>>
        /\ \A i \in 1 .. Len(lastRender.entries) :
              lastRender.entries[i].icon # "img" =>
                  /\ lastRender.canvas.rows[i] = "badge"
                  /\ Words(BadgeName(lastRender.entries[i])) # <<>> =>
                        lastRender.canvas.badges[i]
                            = InitialsAsStated(BadgeName(lastRender.entries[i]))

---------------------------------------------------------------------------
(* The page: the Fetch Top 8, Generate Graphic and Test Graphic handlers.  *)
(*                                                                         *)
(* container is [kind, rows]: kind names what #top8-container shows        *)
(* ("empty", "loading", "invalid", "rows", "nostandings", "error"); a row  *)
(* is [label, name, character]: the placement label's text, the name       *)
(* input's value and the character select's value.                         *)

\* String.prototype.trim
Trim(str) ==
    LET solid == {i \in 1 .. Len(str) : ~IsSpace(str[i])}
    IN  IF solid = {} THEN <<>>
        ELSE SubSeq(str, CHOOSE i \in solid : \A j \in solid : i <= j,
                         CHOOSE i \in solid : \A j \in solid : i >= j)

EventWord == <<"e", "v", "e", "n", "t">>

Unknown == <<"U", "n", "k", "n", "o", "w", "n">>

Digits == <<"0", "1", "2", "3", "4", "5", "6", "7", "8", "9">>

\* a placement in a template literal
RECURSIVE NumberToString(_)
NumberToString(n) ==
    IF n < 10 THEN <<Digits[n + 1]>>
    ELSE NumberToString(n \div 10) \o <<Digits[(n % 10) + 1]>>

\* name.split("|"): the last part, trimmed; "Unknown" for no name
cleanName(name) ==
    IF name = <<>> THEN Unknown
    ELSE LET bars == {i \in 1 .. Len(name) : name[i] = "|"}
             last == IF bars = {} THEN 0 ELSE CHOOSE i \in bars : \A j \in bars : i >= j
         IN  Trim(SubSeq(name, last + 1, Len(name)))

\* a.placement ?? 0
SortKey(n) == IF n.hasPlacement THEN n.placement ELSE 0

\* Array.prototype.sort is stable: n goes behind every node that is not after it
RECURSIVE InsertSorted(_, _)
InsertSorted(sorted, n) ==
    IF sorted = <<>> THEN <<n>>
    ELSE IF SortKey(Head(sorted)) <= SortKey(n)
    THEN <<Head(sorted)>> \o InsertSorted(Tail(sorted), n)
    ELSE <<n>> \o sorted

RECURSIVE SortByPlacement(_)
SortByPlacement(nodes) ==
    IF nodes = <<>> THEN <<>>
    ELSE InsertSorted(SortByPlacement(SubSeq(nodes, 1, Len(nodes) - 1)),
                      nodes[Len(nodes)])

sliceEnd == 8

\* the first eight nodes as they came, unsorted
FirstEightAsReceived(nodes) ==
    SubSeq(nodes, 1, IF Len(nodes) < sliceEnd THEN Len(nodes) ELSE sliceEnd)

\* nodes.slice().sort(...).slice(0, 8)
SortedTop8(nodes) ==
    LET sorted == SortByPlacement(nodes)
    IN  SubSeq(sorted, 1, IF Len(sorted) < sliceEnd THEN Len(sorted) ELSE sliceEnd)

\* the row built for one node
RowOf(n) ==
    [label |-> (IF n.hasPlacement THEN NumberToString(n.placement) ELSE <<>>) \o <<".">>,
     name |-> cleanName(IF n.hasName THEN n.name ELSE Unknown),
     character |-> <<>>]

RowsOf(nodes) ==
    LET sorted == SortedTop8(nodes)
    IN  [i \in 1 .. Len(sorted) |-> RowOf(sorted[i])]

\* label.replace(".", ""): the first "." goes
DropFirstDot(str) ==
    LET i == IndexOfFrom(str, <<".">>, 1)
    IN  IF i = 0 THEN str ELSE RemoveAt(str, i)

\* the entry the Generate handler reads from a row
EntryOfRow(r) ==
    Entry(Trim(DropFirstDot(r.label)),
          IF Trim(r.name) = <<>> THEN Unknown ELSE Trim(r.name),
          Trim(r.character))

DummyEntries ==
    << Entry(<<"1">>, <<"L", "u", "c", "k", "y">>, <<"F", "o", "x">>),
       Entry(<<"2">>, <<"M", "a", "n", "g", "o">>, <<"F", "a", "l", "c", "o">>),
       Entry(<<"3">>, <<"M", "e", "w", "2", "K", "i", "n", "g">>, <<"M", "a", "r", "t", "h">>),
       Entry(<<"4">>, <<"P", "P", "M", "D">>, <<"S", "h", "e", "i", "k">>),
       Entry(<<"5">>, <<"A", "r", "m", "a", "d", "a">>, <<"P", "e", "a", "c", "h">>),
       Entry(<<"6">>, <<"H", "b", "o", "x">>, <<"J", "i", "g", "g", "l", "y", "p", "u", "f", "f">>),
       Entry(<<"7">>, <<"W", "i", "z", "z", "r", "o", "b", "e">>, <<"C", "a", "p", "t", "a", "i", "n", " ", "F", "a", "l", "c", "o", "n">>),
       Entry(<<"8">>, <<"A", "x", "e">>, <<"P", "i", "k", "a", "c", "h", "u">>) >>

\* testBtn.disabled is never assigned
testBtnDisabled == FALSE

Status(kind) == [kind |-> kind, rows |-> <<>>]

\* generateGraphic calls in flight at once
MaxInFlight == 2

\* entries of the dummy list the Test button renders
DummyRows == 1

PageUrl ==
    <<" ">> \o StartGG \o <<"t", "/", "E", "v", "e", "n", "t", "/", "m">>
        \o Overview \o <<" ">>

InputValues == {<<>>, PageUrl}

\* the answers api.start.gg gives the page: two standings out of order, the
\* first without a name, the second without a placement
PageNodes == <<Node(TRUE, 2, FALSE, <<>>), Node(FALSE, 0, TRUE, NameA)>>

\* nine standings, last place first: one more than the page shows
NineNodes == [i \in 1 .. 9 |-> Node(TRUE, 10 - i, TRUE, NameA)]

PageBodies ==
    {b \in Bodies : b.kind = "nodes" /\ b.nodes # <<>> => b.nodes = PageNodes}
        \cup {[kind |-> "nodes", nodes |-> NineNodes]}

\* rows, from the top, in which the user picks a character
TouchedRows == 1

SelectValues == {<<>>, Fox}

\* the display and the font the page runs on
PageRatios == {<<2, 1>>}

PageMetrics == {[text |-> <<49, 2>>, header |-> <<381, 2>>]}

PageInit ==
    /\ inputValue = <<>>
    /\ btnDisabled = FALSE
    /\ genBtnDisabled = TRUE
    /\ container = Status("empty")
    /\ graphicArea = <<>>
    /\ borderChk = FALSE
    /\ renders = <<>>
    /\ dpr \in PageRatios
    /\ metrics \in PageMetrics
    /\ lastRender = NoRender
    /\ prevRender = NoRender
    /\ startggKey \in BOOLEAN
    /\ calls = <<>>
    /\ httpSent = FALSE
    /\ top8Last = NoTop8
    /\ ColorOff /\ ColorizeOff /\ SlugOff /\ FilterOff

envFrame == <<dpr, metrics, startggKey, lastRender, prevRender, notPage>>

\* the user types into the link field
TypeInput ==
    /\ \E v \in InputValues : v # inputValue /\ inputValue' = v
    /\ UNCHANGED <<btnDisabled, genBtnDisabled, container, graphicArea, borderChk,
                   renders, calls, httpSent, top8Last, envFrame>>

\* the user ticks or clears "Add border"
ToggleBorder ==
    /\ borderChk' = ~borderChk
    /\ UNCHANGED <<inputValue, btnDisabled, genBtnDisabled, container, graphicArea,
                   renders, calls, httpSent, top8Last, envFrame>>

\* the user picks a character in a row
SelectCharacter ==
    /\ \E i \in 1 .. Len(container.rows), c \in SelectValues :
          /\ i <= TouchedRows
          /\ container.rows[i].character # c
          /\ container' = [container EXCEPT !.rows[i].character = c]
    /\ UNCHANGED <<inputValue, btnDisabled, genBtnDisabled, graphicArea, borderChk,
                   renders, calls, httpSent, top8Last, envFrame>>

\* the handler's catch and finally
FetchFailed(outcome) ==
    /\ top8Last' = outcome
    /\ container' = Status("error")
    /\ btnDisabled' = FALSE

\* click on Fetch Top 8, up to the await of getTop8
FetchClick ==
    /\ ~btnDisabled
    /\ genBtnDisabled' = TRUE
    /\ graphicArea' = <<>>
    /\ LET url == Trim(inputValue)
       IN  IF ~Includes(ToLowerCase(url), EventWord)
           THEN /\ container' = Status("invalid")
                /\ btnDisabled' = FALSE
                /\ UNCHANGED <<calls, httpSent, top8Last>>
           ELSE LET st == getTop8Start(url, startggKey)
                IN  IF st.thrown
                    THEN /\ FetchFailed(Top8Thrown(Top8KeyError, FALSE, "none"))
                         /\ UNCHANGED <<calls, httpSent>>
                    ELSE /\ calls' = Append(calls, st.call)
                         /\ httpSent' = TRUE
                         /\ container' = Status("loading")
                         /\ btnDisabled' = TRUE
                         /\ UNCHANGED top8Last
    /\ UNCHANGED <<inputValue, borderChk, renders, envFrame>>

\* fetch() answers with some status; getTop8 goes on to res.json()
Top8Response ==
    /\ \E i \in 1 .. Len(calls), ok \in BOOLEAN :
          /\ calls[i].pc = "awaitFetch"
          /\ calls' = [calls EXCEPT ![i] = [@ EXCEPT !.pc = "awaitJson", !.ok = ok]]
    /\ UNCHANGED <<inputValue, btnDisabled, genBtnDisabled, container, graphicArea,
                   borderChk, renders, httpSent, top8Last, envFrame>>

\* fetch() rejects: getTop8 rejects and the handler catches
Top8NetworkError ==
    /\ \E i \in 1 .. Len(calls) :
          /\ calls[i].pc = "awaitFetch"
          /\ calls' = RemoveAt(calls, i)
          /\ FetchFailed(Top8Thrown("network", FALSE, "none"))
    /\ UNCHANGED <<inputValue, genBtnDisabled, graphicArea, borderChk, renders,
                   httpSent, envFrame>>

\* res.json() settles; getTop8 returns or throws and the handler goes on
Top8Json ==
    /\ \E i \in 1 .. Len(calls), body \in PageBodies :
          /\ calls[i].pc = "awaitJson"
          /\ calls' = RemoveAt(calls, i)
          /\ LET res == getTop8Return(calls[i], body)
             IN  IF res.outcome = "thrown"
                 THEN FetchFailed(res) /\ UNCHANGED genBtnDisabled
                 ELSE /\ top8Last' = res
                      /\ btnDisabled' = FALSE
                      /\ IF Len(res.nodes) > 0
                         THEN /\ container' = [kind |-> "rows", rows |-> RowsOf(res.nodes)]
                              /\ genBtnDisabled' = FALSE
                         ELSE /\ container' = Status("nostandings")
                              /\ UNCHANGED genBtnDisabled
    /\ UNCHANGED <<inputValue, graphicArea, borderChk, renders, httpSent, envFrame>>

\* the canvas a call builds, marked with the handler whose call owns it
CanvasOf(inv) == MakeCanvas(inv.entries, borderChk, dpr, metrics) @@ [by |-> inv.by]

\* generateGraphic(entries), called by a handler, up to its first suspension
CallGenerateGraphic(by, arg) ==
    LET st == generateGraphicBegin(by, arg)
    IN  IF st.empty
        THEN /\ graphicArea' = <<TextNode(NoEntriesText)>>
             /\ UNCHANGED renders
        ELSE IF AllSettled(st.inv) /\ DrawThrows(st.inv.entries)
        THEN /\ graphicArea' = <<>>
             /\ UNCHANGED renders
        ELSE IF AllSettled(st.inv)
        THEN /\ graphicArea' = <<CanvasOf(st.inv), LinkNode>>
             /\ UNCHANGED renders
        ELSE /\ renders' = Append(renders, st.inv)
             /\ graphicArea' = <<>>

\* click on Generate Graphic
GenClick ==
    /\ ~genBtnDisabled
    /\ Len(renders) < MaxInFlight
    /\ IF container.rows = <<>>
       THEN /\ graphicArea' = <<TextNode("No rows to generate from.")>>
            /\ UNCHANGED renders
       ELSE CallGenerateGraphic("gen",
                [isArray |-> TRUE,
                 items |-> [i \in 1 .. Len(container.rows) |->
                               EntryOfRow(container.rows[i])]])
    /\ UNCHANGED <<inputValue, btnDisabled, genBtnDisabled, container, borderChk,
                   calls, httpSent, top8Last, envFrame>>

\* click on Test Graphic (Dummy Data)
TestClick ==
    /\ ~testBtnDisabled
    /\ Len(renders) < MaxInFlight
    /\ CallGenerateGraphic("test",
            [isArray |-> TRUE,
             items |-> SubSeq(DummyEntries, 1,
                              IF DummyRows < Len(DummyEntries)
                              THEN DummyRows ELSE Len(DummyEntries))])
    /\ UNCHANGED <<inputValue, btnDisabled, genBtnDisabled, container, borderChk,
                   calls, httpSent, top8Last, envFrame>>

\* one image load settles; after the last one the call lays out, draws and
\* appends the canvas and the link
IconSettled(k, inv) ==
    /\ IF inv.rejected \/ (AllSettled(inv) /\ DrawThrows(inv.entries))
       THEN /\ renders' = RemoveAt(renders, k)
            /\ UNCHANGED graphicArea
       ELSE IF AllSettled(inv)
       THEN /\ renders' = RemoveAt(renders, k)
            /\ graphicArea' = graphicArea \o <<CanvasOf(inv), LinkNode>>
       ELSE /\ renders' = [renders EXCEPT ![k] = inv]
            /\ UNCHANGED graphicArea
    /\ UNCHANGED <<inputValue, btnDisabled, genBtnDisabled, container, borderChk,
                   calls, httpSent, top8Last, envFrame>>

IconLoad ==
    \E k \in 1 .. Len(renders) : \E i \in 1 .. Len(renders[k].loads) :
        /\ renders[k].loads[i] = "pending"
        /\ IconSettled(k, iconOnLoad(renders[k], i))

IconError ==
    \E k \in 1 .. Len(renders) : \E i \in 1 .. Len(renders[k].loads) :
        /\ renders[k].loads[i] = "pending"
        /\ IconSettled(k, iconOnError(renders[k], i))

Next ==
    \/ TypeInput
    \/ ToggleBorder
    \/ SelectCharacter
    \/ FetchClick
    \/ Top8Response
    \/ Top8NetworkError
    \/ Top8Json
    \/ GenClick
    \/ TestClick
    \/ IconLoad
    \/ IconError

Init == PageInit

Spec == Init /\ [][Next]_vars

InFlightBy(by) == {k \in 1 .. Len(renders) : renders[k].by = by}

(* C1: each of Fetch Top 8, Generate Graphic and Test Graphic keeps its    *)
(* button disabled from the start of the action to its end, so no two      *)
(* invocations of the same action are ever in flight together.             *)
OneInvocationPerAction ==
    /\ Len(calls) <= 1
    /\ calls # <<>> => btnDisabled
    /\ Cardinality(InFlightBy("gen")) <= 1
    /\ InFlightBy("gen") # {} => genBtnDisabled
    /\ Cardinality(InFlightBy("test")) <= 1
    /\ InFlightBy("test") # {} => testBtnDisabled

(* C4: getTop8 returns the node list of the response or fails: a response  *)
(* with a non-success status, or a body that cannot be parsed or holds no  *)
(* data.event.standings.nodes, makes getTop8 fail, so the page shows the   *)
(* error message and not "No standings returned.".                         *)
BadResponseIsAnError ==
    /\ (top8Last.body # "none" /\ (~top8Last.respOk \/ top8Last.body # "nodes"))
          => top8Last.outcome = "thrown"
    /\ container.kind = "nostandings"
          => (top8Last.respOk /\ top8Last.body = "nodes")

(* C12: whatever the order of the Fetch, Generate Graphic and Test Graphic *)
(* clicks and of their completions, the graphic area holds at most one     *)
(* canvas and at most one download link, and a render never adds its       *)
(* canvas to an area that a later action has cleared: while a fetch is     *)
(* loading, which keeps Generate Graphic disabled, the area holds no       *)
(* canvas of a Generate Graphic call.                                      *)
OneGraphicAtMost ==
    /\ Cardinality(Canvases(graphicArea)) <= 1
    /\ Cardinality(Links(graphicArea)) <= 1
    /\ container.kind = "loading" =>
          \A i \in Canvases(graphicArea) : graphicArea[i].by # "gen"

\* the placement a row's label shows, 0 for a label without one
LabelPlacement(label) ==
    IF label = <<".">> THEN 0
    ELSE CHOOSE n \in 0 .. 99 : label = NumberToString(n) \o <<".">>

(* C13: the Generate Graphic button is enabled only while the container    *)
(* holds the rows of the most recent fetch that returned standings: one    *)
(* to eight rows, in non-decreasing placement order (a missing placement   *)
(* counting as 0), each the row of a returned node and none placed after   *)
(* a node left out. When a fetch starts, the link is invalid, the result   *)
(* is empty or the fetch fails, the button is disabled and the container   *)
(* has no rows.                                                            *)
GenerateNeedsRows ==
    /\ ~genBtnDisabled =>
          /\ container.kind = "rows"
          /\ Len(container.rows) >= 1 /\ Len(container.rows) <= 8
          /\ top8Last.outcome = "returned"
          /\ Len(container.rows)
                = (IF Len(top8Last.nodes) < 8 THEN Len(top8Last.nodes) ELSE 8)
          /\ \A i, j \in 1 .. Len(container.rows) :
                i < j => LabelPlacement(container.rows[i].label)
                            <= LabelPlacement(container.rows[j].label)
          /\ \A i \in 1 .. Len(container.rows) :
                \E k \in 1 .. Len(top8Last.nodes) :
                    /\ container.rows[i].label = RowOf(top8Last.nodes[k]).label
                    /\ container.rows[i].name = RowOf(top8Last.nodes[k]).name
          /\ Cardinality({k \in 1 .. Len(top8Last.nodes) :
                  SortKey(top8Last.nodes[k])
                      < LabelPlacement(container.rows[Len(container.rows)].label)})
                < Len(container.rows)
    /\ container.kind # "rows" => (genBtnDisabled /\ container.rows = <<>>)

\* nine standings came back last place first and eight rows are shown
EightOfNineShown ==
    /\ ~genBtnDisabled
    /\ Len(top8Last.nodes) = 9
    /\ Len(container.rows) = 8
    /\ container.rows[1].label = <<"1", ".">>

\* a fetch failed where rows had been shown
RowsGoneAfterError ==
    /\ container.kind = "error"
    /\ genBtnDisabled
    /\ top8Last.outcome = "thrown"
    /\ top8Last.body = "unparsable"
=============================================================================
